---- MODULE Spec2Model ----
(***************************************************************************)
(* Move evaluation and search engine of ingenious-rl:                      *)
(*   game/strategy.py      heuristic strategies, RLVanilla, mock_turn,     *)
(*                         RL2PlySearch, RL3PlySearch                      *)
(*   learn/representation.py   RepresentationGenerator.generate_batched    *)
(*                                                                         *)
(* Index conventions: numpy arrays are 0-based, the sequences here are     *)
(* 1-based, so general_repr[:, 3] of the code is general[4] here and row   *)
(* index r of the code is r + 1 here.  Colours are 1..NumColours.          *)
(* Players are 1 and 2.  Predicted values are float32 in the code and      *)
(* integers here; the terminal values 1. and -1. are 1 and -1.             *)
(***************************************************************************)
EXTENDS Integers, Sequences, FiniteSets, TLC

(***************************************************************************)
(* Program constants.                                                      *)
(***************************************************************************)
NumColours == 6
ScoreCap == 18
DeckSize == 6
search_n == 8
max_batch_default == 1024

(***************************************************************************)
(* Bounds of the model.                                                    *)
(***************************************************************************)
\* number of free placement sites of the largest board explored
NumSites == 4
\* the largest batch handed to the encoder or the predictor in a single call
MaxRows == 7
\* number of choose_move calls made on one heuristic strategy instance
MaxCalls == 32
MaxBufferRows == 4

Colours == 1..NumColours
Sites == 1..NumSites
Players == {1, 2}

b2i(b) == IF b THEN 1 ELSE 0
MinOf(S) == CHOOSE x \in S : \A y \in S : x <= y
MaxOf(S) == CHOOSE x \in S : \A y \in S : x >= y
Minimum(a, b) == IF a <= b THEN a ELSE b

\* a sequence given by a rule, computed once and held as an array
Array(s) == SubSeq(s, 1, Len(s))

RECURSIVE SumSeq(_)
SumSeq(s) == IF Len(s) = 0 THEN 0 ELSE Head(s) + SumSeq(Tail(s))

\* np.sum of a score vector over its 6 colours
SumVec(v) == SumSeq([c \in Colours |-> v[c]])

(***************************************************************************)
(* numpy primitives used by the strategies.                                *)
(***************************************************************************)
\* np.random.randint(low, high): the possible draws, high exclusive
RandInt(low, high) == {x \in low..(high - 1) : TRUE}

\* np.argmax(v): index of the first maximal element
ArgMax(v) ==
    LET largest == MaxOf({v[k] : k \in 1..Len(v)})
    IN  MinOf({k \in 1..Len(v) : v[k] = largest})

\* np.max(a, b) with a scalar a: the second positional argument of np.max is
\* the axis, and a reduction of a 0-d array over axis 0 returns the scalar
np_max(a, axis) == a

\* np.argsort(v): a permutation that sorts v ascending.  The default kind is
\* not stable, so the order of equal values is one of the orders the build
\* can produce: ties in index order, or ties in reverse index order.
ArgSortBefore(v, ties, j, k) ==
    \/ v[j] < v[k]
    \/ v[j] = v[k] /\ IF ties = "index" THEN j < k ELSE j > k

ArgSort(v, ties) ==
    LET rank == Array([k \in 1..Len(v) |->
                    Cardinality({j \in 1..Len(v) : ArgSortBefore(v, ties, j, k)})])
    IN  Array([p \in 1..Len(v) |-> CHOOSE k \in 1..Len(v) : rank[k] = p - 1])

\* a[-k:]: the last k elements
LastK(a, k) == SubSeq(a, Len(a) - k + 1, Len(a))

(***************************************************************************)
(* The rules engine (game/board.py, game/player.py, game/utils.py): an     *)
(* abstract board of placement sites.  A board is its set of free sites    *)
(* and its move number; a deck is the sequence of held tiles, a tile a     *)
(* pair of colours; a score is a vector of NumColours counts capped at     *)
(* ScoreCap.  A move is [site, c1, c2, t1, t2]: the placement, the two     *)
(* colours laid down and the deck tile they come from (fields 6 and 7 of   *)
(* the code's 8-field move).                                               *)
(***************************************************************************)
\* points a placement on site s gives to its first and its second colour
SiteGain(s) == <<1 + (s % 2), s % 3>>

Board(free) == [free |-> free, move_num |-> NumSites - Cardinality(free)]

RECURSIVE SetToSeq(_)
SetToSeq(S) == IF S = {} THEN <<>>
               ELSE <<MinOf(S)>> \o SetToSeq(S \ {MinOf(S)})

\* board.get_all_possible_moves() combined with combine_moves_and_deck:
\* every free site with every held tile in both orientations
PossibleMoves(board, deck) ==
    LET sites == SetToSeq(board.free)
        d == Len(deck)
    IN  [k \in 1..(Len(sites) * d * 2) |->
            LET s == sites[((k - 1) \div (2 * d)) + 1]
                t == deck[(((k - 1) \div 2) % d) + 1]
                flip == (k - 1) % 2 = 1
            IN  [site |-> s,
                 c1 |-> IF flip THEN t[2] ELSE t[1],
                 c2 |-> IF flip THEN t[1] ELSE t[2],
                 t1 |-> t[1], t2 |-> t[2]]]

\* board.calculate_move_score(move): points per colour
MoveScore(board, move) ==
    [c \in Colours |->
        (IF c = move.c1 THEN SiteGain(move.site)[1] ELSE 0)
      + (IF c = move.c2 THEN SiteGain(move.site)[2] ELSE 0)]

\* score.update_score / batch_peek_next_scores: the capped new score, whether
\* some colour reached the cap with this move, and how many did
UpdateScore(score, move_score) ==
    LET new == [c \in Colours |-> Minimum(score[c] + move_score[c], ScoreCap)]
        hit == {c \in Colours : score[c] < ScoreCap /\ new[c] = ScoreCap}
    IN  [score |-> new, ingenious |-> hit # {}, num_ingenious |-> Cardinality(hit)]

\* board.update_board(move)
UpdateBoard(board, move) ==
    [free |-> board.free \ {move.site}, move_num |-> board.move_num + 1]

\* deck.play_tile(tile): the first held copy of the tile leaves the deck
PlayTile(deck, tile) ==
    IF \E k \in 1..Len(deck) : deck[k] = tile
    THEN LET k == MinOf({j \in 1..Len(deck) : deck[j] = tile})
         IN  SubSeq(deck, 1, k - 1) \o SubSeq(deck, k + 1, Len(deck))
    ELSE deck

\* board.game_is_finished()
GameIsFinished(board) == board.free = {}

\* batch_peek_can_exchange_tiles(next_decks, updated_scores): the deck holds
\* no tile of a colour on which the player's score is lowest
CanExchange(deck, score) ==
    LET low == MinOf({score[c] : c \in Colours})
    IN  \A k \in 1..Len(deck) : score[deck[k][1]] # low /\ score[deck[k][2]] # low

\* deck.create_dummy_deck(): a placeholder deck for the opponent's viewpoint,
\* one double tile per colour
CreateDummyDeck == [c \in 1..DeckSize |-> <<c, c>>]

\* get_other_player(player)
get_other_player(p) == IF p = 1 THEN 2 ELSE 1

\* the score vector sorted ascending
SortedScore(v) ==
    LET idx == ArgSort([c \in Colours |-> v[c]], "index")
    IN  [k \in Colours |-> v[idx[k]]]

\* find_winner_fast(p1_score, p2_score): 1 when the first vector wins, 2 when
\* the second wins, 0 on a draw.  The vectors are compared from the lowest
\* score up; the first difference decides.
find_winner_fast(p1_score, p2_score) ==
    LET a == SortedScore(p1_score)
        b == SortedScore(p2_score)
        diff == {k \in Colours : a[k] # b[k]}
    IN  IF diff = {} THEN 0
        ELSE IF a[MinOf(diff)] > b[MinOf(diff)] THEN 1 ELSE 2

(***************************************************************************)
(* The bounded sets the inputs are drawn from.                             *)
(***************************************************************************)
\* a score with colours 1 and 2 at a and b and every other colour at r
ScoreVec(a, b, r) ==
    [c \in Colours |-> IF c = 1 THEN a ELSE IF c = 2 THEN b ELSE r]

\* a deck of len tiles
DeckOf(kind, len) ==
    [k \in 1..len |->
        IF kind = 1
        THEN (IF k % 3 = 1 THEN <<1, 1>> ELSE IF k % 3 = 2 THEN <<1, 2>> ELSE <<2, 2>>)
        ELSE (IF k % 2 = 1 THEN <<1, 2>> ELSE <<2, 3>>)]

\* The live games choose_move is called on.  The deck is full, as at the
\* start of a turn, or short, as on a bonus move; it holds at least one tile
\* per free site, so that every simulated decision has a candidate (callers
\* guarantee at least one legal move).
SearchBoards == {Board(1..n) : n \in 1..NumSites}
SearchDecks(board) ==
    {DeckOf(1, DeckSize),
     DeckOf(2, IF Cardinality(board.free) < 2 THEN 2 ELSE Cardinality(board.free))}
SearchScores == {ScoreVec(17, 17, 9), ScoreVec(2, 17, 9), ScoreVec(17, 0, 9)}
SearchOtherScores == {ScoreVec(17, 3, 9), ScoreVec(17, 17, 16)}
\* the estimator in use and the order this build's argsort gives equal values
SearchBuilds == {<<0, "index">>, <<0, "reverse">>, <<1, "index">>, <<2, "reverse">>,
                 <<4, "index">>}

(***************************************************************************)
(* Representation encoder (learn/representation.py).  A row of a batched   *)
(* Representation is kept with the move it encodes:                        *)
(*   score, other   scores_repr[row, 0, :] and scores_repr[row, 1, :]      *)
(*   board, deck    the hypothetical post-move board and deck              *)
(*   general        <<ingenious, num_ingenious, can_exchange,              *)
(*                    should_exchange, move_num>>                          *)
(***************************************************************************)
\* the encoding of one candidate with a given should-exchange column; the
\* do-exchange block of generate_batched differs from the don't-exchange
\* block in that column alone
EncodeRow(board, deck, score, other_score, move, should_exchange) ==
    LET updated == UpdateScore(score, MoveScore(board, move))
        next_deck == PlayTile(deck, <<move.t1, move.t2>>)
        can_exchange == CanExchange(next_deck, updated.score)
    IN  [move |-> move,
         board |-> UpdateBoard(board, move),
         deck |-> next_deck,
         score |-> updated.score,
         other |-> other_score,
         general |-> <<b2i(updated.ingenious), updated.num_ingenious,
                       b2i(can_exchange), should_exchange, board.move_num>>]

\* (changed) every stacked row is kept
ValidRowAll(row) == TRUE

\* (changed) the do-exchange rows and the rows that can exchange are kept
ValidRowExchange(row) == row.general[4] = 1 \/ row.general[3] = 1

\* the rows kept by valid_idxs: every don't-exchange row of a candidate that
\* cannot exchange, and both rows of a candidate that can
ValidRow(row) ==
    \/ row.general[3] = 0 /\ row.general[4] = 0
    \/ row.general[3] = 1

\* (changed) the do-exchange block is stacked before the don't-exchange block
generate_batched_do_first(board, deck, score, other_score, turn_of_, possible_moves) ==
    LET b == Len(possible_moves)
        do_exchange == Array([k \in 1..b |->
            EncodeRow(board, deck, score, other_score, possible_moves[k], 1)])
        dont_exchange == Array([k \in 1..b |->
            [do_exchange[k] EXCEPT !.general[4] = 0]])
    IN  SelectSeq(do_exchange \o dont_exchange, ValidRow)

\* RepresentationGenerator.generate_batched: the representations and
\* possible_moves_subset, row for row
generate_batched(board, deck, score, other_score, turn_of_, possible_moves) ==
    LET b == Len(possible_moves)
        dont_exchange == Array([k \in 1..b |->
            EncodeRow(board, deck, score, other_score, possible_moves[k], 0)])
        do_exchange == Array([k \in 1..b |->
            [dont_exchange[k] EXCEPT !.general[4] = 1]])
        stacked == dont_exchange \o do_exchange
    IN  SelectSeq(stacked, ValidRow)

\* RepresentationsBuffer(): a new buffer
RepresentationsBuffer == [version |-> 1, size |-> 0, empty |-> 1, rows |-> <<>>]

\* RepresentationsBuffer.set_single_reprs_from_scratch
set_single_reprs_from_scratch(buffer, row) ==
    [buffer EXCEPT !.rows = <<row>>, !.size = @ + 1, !.empty = 0]

\* RepresentationsBuffer.set_batched_reprs_from_scratch
set_batched_reprs_from_scratch(buffer, rows) ==
    [buffer EXCEPT !.rows = rows, !.size = @ + Len(rows), !.empty = 0]

\* RepresentationsBuffer.set_reprs_from_reprs
set_reprs_from_reprs(buffer_, reprs) ==
    [buffer_ EXCEPT !.rows = reprs.rows, !.size = @ + reprs.size, !.empty = 0]

\* RepresentationsBuffer.combine_reprs: the rows of reprs go in front
combine_reprs(buffer_, reprs) ==
    IF buffer_.empty = 1 THEN set_reprs_from_reprs(buffer_, reprs)
    ELSE [buffer_ EXCEPT !.rows = reprs.rows \o @, !.size = @ + reprs.size]

\* RepresentationsBuffer.clip_to_size: a[:required_size] of every array
clip_to_size(buffer_, required_size) ==
    [buffer_ EXCEPT !.rows = SubSeq(@, 1, Minimum(required_size, Len(@))),
                    !.size = required_size]

\* RepresentationGenerator.generate: the encoding of one state, with the
\* flags it is given
generate(board, deck, score, other_score, ingenious, num_ingenious, can_exchange, should_exchange, turn_of_) ==
    set_single_reprs_from_scratch(RepresentationsBuffer,
        [board |-> board, deck |-> deck, score |-> score, other |-> other_score,
         general |-> <<ingenious, num_ingenious, can_exchange,
                       should_exchange * can_exchange, board.move_num>>])

\* what generate_batched returns: the buffer and possible_moves_subset
generate_batched_reprs(board, deck, score, other_score, turn_of_, possible_moves) ==
    LET rows == generate_batched(board, deck, score, other_score, turn_of_,
                                 possible_moves)
    IN  [representations |->
             set_batched_reprs_from_scratch(RepresentationsBuffer, rows),
         possible_moves_subset |-> Array([k \in 1..Len(rows) |-> rows[k].move])]

\* RLVanilla.get_representations
get_representations(board, deck, score, other_score, turn_of_) ==
    generate_batched(board, deck, score, other_score, turn_of_,
                     PossibleMoves(board, deck))

(***************************************************************************)
(* Augmentation and input preparation (RepresentationsBuffer.augment,      *)
(* normalise, prepare).  The arrays handed to augment are the arrays the   *)
(* Representation holds: an assignment to board_repr[i], deck_repr[i] or   *)
(* scores_repr[i] writes into the held array, while a flip makes a view.   *)
(* The abstract board carries no colour planes, so the colour permutation  *)
(* shows in the deck and the scores of a row.                              *)
(***************************************************************************)
\* ordering after np.random.shuffle, as colours 1..6: the draws considered
Orderings == {<<1, 2, 3, 4, 5, 6>>, <<2, 1, 3, 4, 5, 6>>, <<2, 3, 1, 4, 5, 6>>}

\* a[:, ordering] on a vector of colour columns
TakeColumns(v, ordering) == [c \in Colours |-> v[ordering[c]]]

\* deck_repr_example[:, ordering] on the held tiles: the colour in column
\* ordering[c] is moved to column c
TakeDeckColumns(deck, ordering) ==
    LET to == [c \in Colours |-> CHOOSE k \in Colours : ordering[k] = c]
    IN  Array([k \in 1..Len(deck) |-> <<to[deck[k][1]], to[deck[k][2]]>>])

\* one iteration of augment's loop: row i with its colour columns reordered
AugmentRow(row, ordering) ==
    [row EXCEPT !.deck = TakeDeckColumns(@, ordering),
                !.score = TakeColumns(@, ordering),
                !.other = TakeColumns(@, ordering)]

\* RepresentationsBuffer.augment: the arrays as they are held afterwards and
\* the arrays returned, with the two flips recorded
augment(rows, orderings, flip_i, flip_j) ==
    LET written == Array([k \in 1..Len(rows) |-> AugmentRow(rows[k], orderings[k])])
    IN  [held |-> written,
         returned |-> [rows |-> written, flip_i |-> flip_i, flip_j |-> flip_j]]

\* RepresentationsBuffer.normalise: float copies, with the divisors applied
\* to the deck, the scores and the general fields
normalise(inputs) ==
    [inputs EXCEPT !.rows = Array([k \in 1..Len(inputs.rows) |->
        [row |-> inputs.rows[k], deck_over |-> 4, scores_over |-> ScoreCap,
         general_over |-> <<1, 2, 1, 1, 40>>]])]

\* get_playable_channel: the playable cells of the 11 x 21 offset grid
get_playable_channel ==
    <<
     <<0, 0, 0, 0, 0, 1, 0, 1, 0, 1, 0, 1, 0, 1, 0, 1, 0, 0, 0, 0, 0>>,
     <<0, 0, 0, 0, 1, 0, 1, 0, 1, 0, 1, 0, 1, 0, 1, 0, 1, 0, 0, 0, 0>>,
     <<0, 0, 0, 1, 0, 1, 0, 1, 0, 1, 0, 1, 0, 1, 0, 1, 0, 1, 0, 0, 0>>,
     <<0, 0, 1, 0, 1, 0, 1, 0, 1, 0, 1, 0, 1, 0, 1, 0, 1, 0, 1, 0, 0>>,
     <<0, 1, 0, 1, 0, 1, 0, 1, 0, 1, 0, 1, 0, 1, 0, 1, 0, 1, 0, 1, 0>>,
     <<1, 0, 1, 0, 1, 0, 1, 0, 1, 0, 1, 0, 1, 0, 1, 0, 1, 0, 1, 0, 1>>,
     <<0, 1, 0, 1, 0, 1, 0, 1, 0, 1, 0, 1, 0, 1, 0, 1, 0, 1, 0, 1, 0>>,
     <<0, 0, 1, 0, 1, 0, 1, 0, 1, 0, 1, 0, 1, 0, 1, 0, 1, 0, 1, 0, 0>>,
     <<0, 0, 0, 1, 0, 1, 0, 1, 0, 1, 0, 1, 0, 1, 0, 1, 0, 1, 0, 0, 0>>,
     <<0, 0, 0, 0, 1, 0, 1, 0, 1, 0, 1, 0, 1, 0, 1, 0, 1, 0, 0, 0, 0>>,
     <<0, 0, 0, 0, 0, 1, 0, 1, 0, 1, 0, 1, 0, 1, 0, 1, 0, 0, 0, 0, 0>>
    >>

\* the ring numbers in get_idx_channel's table, before the division by 6.
get_idx_channel ==
    <<
     <<0, 0, 0, 0, 0, 1, 0, 1, 0, 1, 0, 1, 0, 1, 0, 1, 0, 0, 0, 0, 0>>,
     <<0, 0, 0, 0, 1, 0, 2, 0, 2, 0, 2, 0, 2, 0, 2, 0, 1, 0, 0, 0, 0>>,
     <<0, 0, 0, 1, 0, 2, 0, 3, 0, 3, 0, 3, 0, 3, 0, 2, 0, 1, 0, 0, 0>>,
     <<0, 0, 1, 0, 2, 0, 3, 0, 4, 0, 4, 0, 4, 0, 3, 0, 2, 0, 1, 0, 0>>,
     <<0, 1, 0, 2, 0, 3, 0, 4, 0, 5, 0, 5, 0, 4, 0, 3, 0, 2, 0, 1, 0>>,
     <<1, 0, 2, 0, 3, 0, 4, 0, 5, 0, 6, 0, 5, 0, 4, 0, 3, 0, 2, 0, 1>>,
     <<0, 1, 0, 2, 0, 3, 0, 4, 0, 5, 0, 5, 0, 4, 0, 3, 0, 2, 0, 1, 0>>,
     <<0, 0, 1, 0, 2, 0, 3, 0, 4, 0, 4, 0, 4, 0, 3, 0, 2, 0, 1, 0, 0>>,
     <<0, 0, 0, 1, 0, 2, 0, 3, 0, 3, 0, 3, 0, 3, 0, 2, 0, 1, 0, 0, 0>>,
     <<0, 0, 0, 0, 1, 0, 2, 0, 2, 0, 2, 0, 2, 0, 2, 0, 1, 0, 0, 0, 0>>,
     <<0, 0, 0, 0, 0, 1, 0, 1, 0, 1, 0, 1, 0, 1, 0, 1, 0, 0, 0, 0, 0>>
    >>

\* a value of get_idx_channel() stored into a uint8 array: the value is
\* ring / 6. and the store keeps its integer part
StoreUint8Sixths(ring) == ring \div 6

\* create_playable_channels(b): b copies of the mask, as float32
create_playable_channels(b) == [k \in 1..b |-> get_playable_channel]

\* create_idx_channels(b): b copies of the table stored in a uint8 buffer;
\* the values are given in sixths
create_idx_channels(b) ==
    [k \in 1..b |->
        [r \in 1..Len(get_idx_channel) |->
            [c \in 1..Len(get_idx_channel[r]) |->
                6 * StoreUint8Sixths(get_idx_channel[r][c])]]]

\* get_extra_grid_feature_channels(b)
get_extra_grid_feature_channels(b) ==
    [playable |-> create_playable_channels(b), idx |-> create_idx_channels(b)]

\* RepresentationsBuffer.prepare: the inputs with the two constant channels
prepare(inputs) ==
    [grid |-> inputs,
     extra |-> get_extra_grid_feature_channels(Len(inputs.rows))]

\* RLVanilla.prepare_model_inputs(r): r as it is afterwards, and the inputs
prepare_model_inputs(r, orderings, flip_i, flip_j) ==
    LET augmented == augment(r.rows, orderings, flip_i, flip_j)
    IN  [r |-> [r EXCEPT !.rows = augmented.held],
         inputs |-> prepare(normalise(augmented.returned))]

(***************************************************************************)
(* Value estimator and batching glue (RLVanilla.predict_values/run_model). *)
(* The estimator is a black box to the search: a pure row-wise function,   *)
(* here one of a small family indexed by est.  An ndarray is              *)
(* [ndim, data]: torch.squeeze turns a batch of one row into a 0-d array.  *)
(***************************************************************************)
Feature(row) ==
    SumVec(row.score) + 2 * row.general[4] + 3 * row.move.site + row.move.c1
    + row.general[1]

Estimate(est_, row) == ((est_ * (Feature(row) + 1)) % 5) - 2

\* The network's output is float32 and can be non-finite.  The non-finite
\* values are kept as integers outside the range of Estimate, placed where
\* np.argmax and np.argsort place them: NaN counts as the largest value (the
\* first NaN is the argmax, NaN sorts last), +inf comes next, -inf is lowest.
NaN == 1001
PosInf == 1000
NegInf == -1000
NonFinite == {NaN, PosInf, NegInf}

\* RLVanilla.run_model: one value per row, squeezed
run_model(est_, rows) ==
    [ndim |-> IF Len(rows) = 1 THEN 0 ELSE 1,
     data |-> Array([k \in 1..Len(rows) |-> Estimate(est_, rows[k])])]

\* the sub-batches i = from..num_passes - 1 of predict_values, concatenated
RECURSIVE PredictPasses(_, _, _, _, _)
PredictPasses(est_, rows, max_batch, from, num_passes) ==
    IF from >= num_passes THEN <<>>
    ELSE LET lo == from * max_batch + 1
             hi == Minimum((from + 1) * max_batch, Len(rows))
             values_subset == run_model(est_, SubSeq(rows, lo, hi))
         IN  values_subset.data
             \o PredictPasses(est_, rows, max_batch, from + 1, num_passes)

\* (changed) the pass over the remainder is left out
predict_values_full_only(est_, rows, max_batch) ==
    LET num_full_minibatches == Len(rows) \div max_batch
    IN  IF num_full_minibatches = 0 THEN run_model(est_, rows)
        ELSE [ndim |-> 1,
              data |-> PredictPasses(est_, rows, max_batch, 0, num_full_minibatches)]

\* the slices [i * max_batch : (i + 1) * max_batch] predict_values hands to
\* run_model, as <<first row, last row>> counted from 1; the whole batch
\* when it is smaller than max_batch
SubBatches(num_inputs, max_batch) ==
    LET num_full_minibatches == num_inputs \div max_batch
        remainder == num_inputs % max_batch
        num_passes == IF remainder > 0 THEN num_full_minibatches + 1
                      ELSE num_full_minibatches
    IN  IF num_full_minibatches = 0 THEN <<<<1, num_inputs>>>>
        ELSE [p \in 1..num_passes |->
                 <<(p - 1) * max_batch + 1, Minimum(p * max_batch, num_inputs)>>]

\* RLVanilla.predict_values
predict_values(est_, rows, max_batch) ==
    LET num_inputs == Len(rows)
        num_full_minibatches == num_inputs \div max_batch
        remainder == num_inputs % max_batch
        num_passes == IF remainder > 0 THEN num_full_minibatches + 1
                      ELSE num_full_minibatches
    IN  IF num_full_minibatches = 0 THEN run_model(est_, rows)
        ELSE [ndim |-> 1,
              data |-> PredictPasses(est_, rows, max_batch, 0, num_passes)]

\* indexing a 0-d array, or taking the argmax of an empty one, raises
Raises(values) == values.ndim = 0 \/ Len(values.data) = 0

(***************************************************************************)
(* State.                                                                  *)
(*                                                                         *)
(* Objects live in heap, a store from cell names to values; the program's  *)
(* variables hold cell names, so that two variables naming one cell alias  *)
(* one object.  The cells *_original are the live game objects passed to   *)
(* choose_move.                                                            *)
(***************************************************************************)
VARIABLES
    \* --- RL2PlySearch / RL3PlySearch.choose_move ---
    heap,           \* the object store
    strategy_type,  \* "rl_2ply" or "rl_3ply"
    turn_of,        \* the player choose_move is called for
    est,            \* the value estimator in use
    ties,           \* how this build's argsort orders equal values
    pc,             \* position in choose_move
    i,              \* the branch being searched, 1..num_to_search
    representations_original,   \* rows of the depth-0 encoding
    move_values_original,       \* their predicted values
    top_k_indices,
    top_k_values,
    frame,          \* choose_move's locals board, score, other_score, deck
    mt,             \* mock_turn's frame
    ret,            \* what the last mock_turn returned
    rets,           \* the mock_turn returns of the current branch, in order
    live0,          \* the live objects as they were when choose_move began
    result,         \* what choose_move returned
    \* --- heuristic strategies ---
    strat,          \* the strategy object: its type, margin and count
    ncalls,         \* choose_move calls made on it
    out,            \* what the last choose_move call used and returned
    \* --- single calls of the move choosers, the encoder and the predictor ---
    args,           \* the game the call is made on
    call,           \* the operation called, its other inputs and its result
    \* --- a RepresentationsBuffer under a sequence of calls ---
    buffer          \* its size and empty fields and the rows of its arrays

search_vars == <<heap, strategy_type, turn_of, est, ties, pc, i,
                 representations_original, move_values_original,
                 top_k_indices, top_k_values, frame, mt, ret, rets, live0,
                 result>>
heur_vars == <<strat, ncalls, out>>
call_vars == <<args, call, buffer>>
vars == <<search_vars, heur_vars, call_vars>>

Store(h, cell, val) ==
    [c \in DOMAIN h \cup {cell} |-> IF c = cell THEN val ELSE h[c]]

LiveCells == {"board_original", "deck_original", "score_original",
              "other_score_original"}

\* the live objects' values
Live(h) == [c \in LiveCells |-> h[c]]

None == [none |-> TRUE]

(***************************************************************************)
(* _RLNPlySearch.mock_move: the move is applied in place to the objects    *)
(* the arguments name.                                                     *)
(***************************************************************************)
\* (changed) the move is applied to throwaway copies: the objects the
\* arguments name stay as they were
mock_move_on_copies(h, chosen_move, board, score, deck) ==
    [heap |-> h,
     ingenious |-> UpdateScore(h[score], MoveScore(h[board], chosen_move)).ingenious]

mock_move(h, chosen_move, board, score, deck) ==
    LET move_score == MoveScore(h[board], chosen_move)
        updated == UpdateScore(h[score], move_score)
        h1 == Store(h, score, updated.score)
        h2 == Store(h1, board, UpdateBoard(h1[board], chosen_move))
        h3 == Store(h2, deck, PlayTile(h2[deck], <<chosen_move.t1, chosen_move.t2>>))
    IN  [heap |-> h3, ingenious |-> updated.ingenious]

\* the value mock_turn gives a finished game (lines 354-357)
TerminalValue(score, other_score, turn_of_) ==
    LET p1_score == score
        p2_score == other_score
        winner == find_winner_fast(p1_score, p2_score)
    IN  IF winner = turn_of_ THEN 1 ELSE -1

\* one pass of mock_turn's while loop
MockTurnStep ==
    /\ pc = "mock_turn"
    /\ LET moved == mock_move(heap, mt.move, mt.board, mt.score, mt.deck)
           h == moved.heap
           rows == get_representations(h[mt.board], h[mt.deck], h[mt.score],
                                       h[mt.other_score], mt.turn_of)
           move_values == predict_values(est, rows, max_batch_default)
           move_idx == ArgMax(move_values.data)
       IN  /\ heap' = h
           /\ IF GameIsFinished(h[mt.board])
              THEN /\ ret' = [game_finished |-> TRUE,
                              move_value |-> TerminalValue(h[mt.score],
                                                 h[mt.other_score], mt.turn_of)]
                   /\ rets' = Append(rets, ret')
                   /\ mt' = [mt EXCEPT !.iters = @ + 1]
                   /\ pc' = "returned"
              ELSE IF ~moved.ingenious
              THEN /\ ret' = [game_finished |-> FALSE, move_value |-> mt.move_value]
                   /\ rets' = Append(rets, ret')
                   /\ mt' = [mt EXCEPT !.iters = @ + 1]
                   /\ pc' = "returned"
              ELSE IF Raises(move_values)
              THEN /\ pc' = "error"
                   /\ mt' = [mt EXCEPT !.iters = @ + 1]
                   /\ UNCHANGED <<ret, rets>>
              ELSE /\ mt' = [mt EXCEPT !.move = rows[move_idx].move,
                                       !.move_value = move_values.data[move_idx],
                                       !.iters = @ + 1]
                   /\ UNCHANGED <<ret, rets, pc>>
    /\ UNCHANGED <<strategy_type, turn_of, est, ties, i,
                   representations_original, move_values_original,
                   top_k_indices, top_k_values, frame, live0, result, heur_vars, call_vars>>

(***************************************************************************)
(* RL2PlySearch.choose_move (lines 376-424) and RL3PlySearch.choose_move   *)
(* (lines 431-495).  The two methods share their ranking, the start of a   *)
(* branch, the mover's first turn and the final selection line for line.   *)
(***************************************************************************)
\* (changed) the first num_to_search indices of the argsort
TopKLowest(values, ties_, num_to_search) ==
    SubSeq(ArgSort(values, ties_), 1, num_to_search)

\* top_k_indices: np.argsort(move_values_original)[-num_to_search:]
TopK(values, ties_, num_to_search) ==
    LastK(ArgSort(values, ties_), num_to_search)

\* what choose_move reads of representations_original and
\* possible_moves_subset_original after the prediction: each row's move and
\* its general_repr
Kept(rows) ==
    [k \in 1..Len(rows) |-> [move |-> rows[k].move, general |-> rows[k].general]]

\* encode and predict the real candidate batch, pick the rows to search
Rank ==
    /\ pc = "rank"
    /\ strategy_type \in {"rl_2ply", "rl_3ply"}
    /\ LET rows == get_representations(heap["board_original"],
                       heap["deck_original"], heap["score_original"],
                       heap["other_score_original"], turn_of)
           values == predict_values(est, rows, max_batch_default)
           num_to_search == Minimum(search_n, Len(rows))
       IN  /\ representations_original' = Kept(rows)
           /\ IF Raises(values)
              THEN /\ pc' = "error"
                   /\ UNCHANGED <<move_values_original, top_k_indices,
                                  top_k_values, i>>
              ELSE /\ move_values_original' = values.data
                   /\ top_k_indices' = TopK(values.data, ties, num_to_search)
                   /\ top_k_values' = [k \in 1..num_to_search |-> 0]
                   /\ i' = 1
                   /\ pc' = "branch"
    /\ UNCHANGED <<heap, strategy_type, turn_of, est, ties, frame, mt, ret,
                   rets, live0, result, heur_vars, call_vars>>

\* (changed) score names the live score object: no get_copy()
BranchCopiesAliased(h) ==
    LET h1 == Store(h, "board", h["board_original"])
        h3 == Store(h1, "other_score", h1["other_score_original"])
        h4 == Store(h3, "deck", h3["deck_original"])
    IN  [heap |-> h4, board |-> "board", score |-> "score_original",
         other_score |-> "other_score", deck |-> "deck"]

\* get_copy() of the four live objects: fresh objects in the cells board,
\* score, other_score and deck
BranchCopies(h) ==
    LET h1 == Store(h, "board", h["board_original"])
        h2 == Store(h1, "score", h1["score_original"])
        h3 == Store(h2, "other_score", h2["other_score_original"])
        h4 == Store(h3, "deck", h3["deck_original"])
    IN  [heap |-> h4, board |-> "board", score |-> "score",
         other_score |-> "other_score", deck |-> "deck"]

\* the start of branch i: private copies, the i-th searched row's move
BranchStart ==
    /\ pc = "branch"
    /\ LET copies == BranchCopies(heap)
           move_idx == top_k_indices[i]
       IN  /\ heap' = copies.heap
           /\ frame' = [board |-> copies.board, score |-> copies.score,
                        other_score |-> copies.other_score, deck |-> copies.deck]
           /\ mt' = [board |-> copies.board, score |-> copies.score,
                     other_score |-> copies.other_score, deck |-> copies.deck,
                     move |-> representations_original[move_idx].move,
                     move_value |-> move_values_original[move_idx],
                     turn_of |-> turn_of, iters |-> 0, ply |-> 1]
           /\ rets' = <<>>
           /\ pc' = "mock_turn"
    /\ UNCHANGED <<strategy_type, turn_of, est, ties, i,
                   representations_original, move_values_original,
                   top_k_indices, top_k_values, ret, live0, result, heur_vars, call_vars>>

\* top_k_values[i] = value; continue with the next branch
RecordBranch(value) ==
    /\ top_k_values' = [top_k_values EXCEPT ![i] = value]
    /\ i' = i + 1
    /\ pc' = IF i < Len(top_k_indices) THEN "branch" ELSE "select"

\* (changed) the opponent's value is recorded as it is
others_branch_value_unnegated(move_value) == move_value

\* the value a branch records after the opponent's reply
others_branch_value(move_value) == 0 - move_value

\* the frame of the opponent's mock_turn: the opponent's best reply from the
\* opponent's viewpoint, on a dummy deck
OthersTurn(h) ==
    LET rows == get_representations(h[frame.board], CreateDummyDeck,
                    h[frame.other_score], h[frame.score],
                    get_other_player(turn_of))
        move_values == predict_values(est, rows, max_batch_default)
        move_idx == ArgMax(move_values.data)
    IN  [raises |-> Raises(move_values),
         mt |-> [board |-> frame.board, score |-> frame.other_score,
                 other_score |-> frame.score, deck |-> "dummy_deck",
                 move |-> rows[move_idx].move,
                 move_value |-> move_values.data[move_idx],
                 turn_of |-> get_other_player(turn_of), iters |-> 0, ply |-> 2]]

\* after the mover's turn: a finished game is recorded as it is, otherwise
\* the opponent's reply is set up
YourMoveDone ==
    /\ pc = "returned"
    /\ mt.ply = 1
    /\ IF ret.game_finished
       THEN /\ RecordBranch(ret.move_value)
            /\ UNCHANGED <<heap, mt>>
       ELSE LET h == Store(heap, "dummy_deck", CreateDummyDeck)
                others == OthersTurn(h)
            IN  IF others.raises
                THEN /\ pc' = "error"
                     /\ UNCHANGED <<heap, mt, top_k_values, i>>
                ELSE /\ heap' = h
                     /\ mt' = others.mt
                     /\ pc' = "mock_turn"
                     /\ UNCHANGED <<top_k_values, i>>
    /\ UNCHANGED <<strategy_type, turn_of, est, ties,
                   representations_original, move_values_original,
                   top_k_indices, frame, ret, rets, live0, result, heur_vars, call_vars>>

\* 2-ply, after the opponent's turn (lines 414-416)
OthersMoveDone2 ==
    /\ pc = "returned"
    /\ mt.ply = 2
    /\ strategy_type = "rl_2ply"
    /\ RecordBranch(others_branch_value(ret.move_value))
    /\ UNCHANGED <<heap, strategy_type, turn_of, est, ties,
                   representations_original, move_values_original,
                   top_k_indices, frame, mt, ret, rets, live0, result,
                   heur_vars, call_vars>>

\* the frame of the mover's second mock_turn (lines 475-485)
SecondTurn(h) ==
    LET rows == get_representations(h[frame.board], h[frame.deck],
                    h[frame.score], h[frame.other_score], turn_of)
        move_values == predict_values(est, rows, max_batch_default)
        move_idx == ArgMax(move_values.data)
    IN  [raises |-> Raises(move_values),
         mt |-> [board |-> frame.board, score |-> frame.score,
                 other_score |-> frame.other_score, deck |-> frame.deck,
                 move |-> rows[move_idx].move,
                 move_value |-> move_values.data[move_idx],
                 turn_of |-> get_other_player(turn_of), iters |-> 0, ply |-> 3]]

\* 3-ply, after the opponent's turn (lines 469-485)
OthersMoveDone3 ==
    /\ pc = "returned"
    /\ mt.ply = 2
    /\ strategy_type = "rl_3ply"
    /\ IF ret.game_finished
       THEN /\ RecordBranch(others_branch_value(ret.move_value))
            /\ UNCHANGED mt
       ELSE LET second == SecondTurn(heap)
            IN  IF second.raises
                THEN /\ pc' = "error"
                     /\ UNCHANGED <<mt, top_k_values, i>>
                ELSE /\ mt' = second.mt
                     /\ pc' = "mock_turn"
                     /\ UNCHANGED <<top_k_values, i>>
    /\ UNCHANGED <<heap, strategy_type, turn_of, est, ties,
                   representations_original, move_values_original,
                   top_k_indices, frame, ret, rets, live0, result, heur_vars, call_vars>>

\* 3-ply, after the mover's second turn (lines 485-487)
SecondMoveDone3 ==
    /\ pc = "returned"
    /\ mt.ply = 3
    /\ RecordBranch(ret.move_value)
    /\ UNCHANGED <<heap, strategy_type, turn_of, est, ties,
                   representations_original, move_values_original,
                   top_k_indices, frame, mt, ret, rets, live0, result,
                   heur_vars, call_vars>>

\* the row choose_move returns (lines 418-424): best_move_idx, the move, the
\* should-exchange flag of the depth-0 row and the branch value
SelectBest(indices, values, rows) ==
    LET best_move_idx == indices[ArgMax(values)]
    IN  [best_move_idx |-> best_move_idx,
         best_move |-> rows[best_move_idx].move,
         should_exchange |-> rows[best_move_idx].general[4],
         best_move_value |-> MaxOf({values[k] : k \in 1..Len(values)})]

Select ==
    /\ pc = "select"
    /\ result' = SelectBest(top_k_indices, top_k_values, representations_original)
    /\ pc' = "done"
    /\ UNCHANGED <<heap, strategy_type, turn_of, est, ties, i,
                   representations_original, move_values_original,
                   top_k_indices, top_k_values, frame, mt, ret, rets, live0,
                   heur_vars, call_vars>>

\* (changed) the first row is returned with its value
VanillaSelectFirst(values, rows) ==
    [best_move_idx |-> 1, best_move |-> rows[1].move,
     should_exchange |-> rows[1].general[4], best_move_value |-> values[1]]

\* what RLVanilla.choose_move returns for the predicted values (lines 326-332)
VanillaSelect(values, rows) ==
    LET move_idx == ArgMax(values)
    IN  [best_move_idx |-> move_idx,
         best_move |-> rows[move_idx].move,
         should_exchange |-> rows[move_idx].general[4],
         best_move_value |-> values[move_idx]]

\* RLVanilla.choose_move: the row of maximal predicted value
VanillaChooseMove ==
    /\ pc = "rank"
    /\ strategy_type = "rl_vanilla"
    /\ LET rows == get_representations(heap["board_original"],
                       heap["deck_original"], heap["score_original"],
                       heap["other_score_original"], turn_of)
           values == predict_values(est, rows, max_batch_default)
       IN  /\ representations_original' = Kept(rows)
           /\ IF Raises(values)
              THEN /\ pc' = "error"
                   /\ UNCHANGED <<move_values_original, result>>
              ELSE /\ move_values_original' = values.data
                   /\ result' = VanillaSelect(values.data, rows)
                   /\ pc' = "done"
    /\ UNCHANGED <<heap, strategy_type, turn_of, est, ties, i, top_k_indices,
                   top_k_values, frame, mt, ret, rets, live0, heur_vars,
                   call_vars>>

(***************************************************************************)
(* Heuristic strategies (strategy.py lines 37-254).                        *)
(***************************************************************************)
\* score.batch_peek_next_scores(board.batch_calculate_move_scores(moves))[0]
UpdatedMoveScores(board, score, possible_moves) ==
    Array([k \in 1..Len(possible_moves) |->
        UpdateScore(score, MoveScore(board, possible_moves[k])).score])

\* choose_random_move: the indices np.random.randint can draw
choose_random_move_draws(n) == RandInt(0, n - 1)

\* choose_should_exchange: the draws of its coin, and its result for a draw
choose_should_exchange_draws == RandInt(0, 1)

choose_should_exchange(inference, draw) ==
    IF inference THEN TRUE ELSE draw = 1

\* (changed) the margin is subtracted
DeficitMinusMargin(other_score, updated, margin, c) ==
    LET diff == other_score[c] - updated[c] + 36 - margin
    IN  (IF diff < 36 THEN 36 ELSE diff) - 36

\* (changed) no floor at 0
DeficitUnclipped(other_score, updated, margin, c) ==
    other_score[c] - updated[c] + margin

\* diffs of choose_reduce_deficit_move, per candidate and colour
Deficit(other_score, updated, margin, c) ==
    LET diff == other_score[c] - updated[c] + 36 + margin
    IN  (IF diff < 36 THEN 36 ELSE diff) - 36

\* choose_reduce_deficit_move: the index of the move it returns
choose_reduce_deficit_move(board, deck, score, other_score, margin) ==
    LET possible_moves == PossibleMoves(board, deck)
        updated_move_scores == UpdatedMoveScores(board, score, possible_moves)
        n == Len(possible_moves)
        total_diffs == Array([k \in 1..n |->
            SumSeq([c \in Colours |->
                Deficit(other_score, updated_move_scores[k], margin, c)])])
        min_diff == MinOf({total_diffs[k] : k \in 1..n})
        min_diff_idxs == SelectSeq([k \in 1..n |-> k],
                                   LAMBDA k : total_diffs[k] = min_diff)
        total_scores_diff == Array([k \in 1..n |->
            SumVec(updated_move_scores[k]) - SumVec(score)])
        min_diff_subset == [k \in 1..Len(min_diff_idxs) |->
                               total_scores_diff[min_diff_idxs[k]]]
    IN  IF Len(min_diff_idxs) = 1 THEN min_diff_idxs[1]
        ELSE min_diff_idxs[ArgMax(min_diff_subset)]

\* the strategy objects get_strategy constructs
RandomStrategy == [class |-> "RandomStrategy", type |-> "random"]
MaxStrategy == [class |-> "MaxStrategy", type |-> "max"]
IncreaseMinStrategy == [class |-> "IncreaseMinStrategy", type |-> "increase_min"]
IncreaseOtherMinStrategy ==
    [class |-> "IncreaseOtherMinStrategy", type |-> "increase_other_min"]
ReduceDeficitStrategy ==
    [class |-> "ReduceDeficitStrategy", type |-> "reduce_deficit", margin |-> 5]
MixedStrategy1 == [class |-> "MixedStrategy1", type |-> "mixed_1"]
MixedStrategy2 == [class |-> "MixedStrategy2", type |-> "mixed_2"]
MixedStrategy3 == [class |-> "MixedStrategy3", type |-> "mixed_3", margin |-> 15]
MixedStrategy4 ==
    [class |-> "MixedStrategy4", type |-> "mixed_4", margin |-> 5, count |-> 4]
RLVanilla ==
    [class |-> "RLVanilla", type |-> "rl", max_batch |-> max_batch_default]
RL2PlySearch ==
    [class |-> "RL2PlySearch", type |-> "rl_2ply",
     max_batch |-> max_batch_default, search_n |-> search_n]
RL3PlySearch ==
    [class |-> "RL3PlySearch", type |-> "rl_3ply",
     max_batch |-> max_batch_default, search_n |-> search_n]

\* raise ValueError(...)
ValueError == [raises |-> "ValueError"]

\* (changed) an unknown identifier gives the Random strategy
get_strategy_lenient(type) ==
    CASE type = "max" -> MaxStrategy
      [] type = "rl" -> RLVanilla
      [] OTHER -> RandomStrategy

get_strategy(type) ==
    CASE type = "random" -> RandomStrategy
      [] type = "max" -> MaxStrategy
      [] type = "increase_min" -> IncreaseMinStrategy
      [] type = "increase_other_min" -> IncreaseOtherMinStrategy
      [] type = "reduce_deficit" -> ReduceDeficitStrategy
      [] type = "mixed_1" -> MixedStrategy1
      [] type = "mixed_2" -> MixedStrategy2
      [] type = "mixed_3" -> MixedStrategy3
      [] type = "mixed_4" -> MixedStrategy4
      [] type = "rl" -> RLVanilla
      [] type = "rl_2ply" -> RL2PlySearch
      [] type = "rl_3ply" -> RL3PlySearch
      [] OTHER -> ValueError

\* the margin MixedStrategy3 and MixedStrategy4 store after a decrement
decayed_margin(margin) == np_max(margin - 1, 0)

\* the games a heuristic is asked to move in
HeurGames ==
    {[board |-> Board(1..n), deck |-> DeckOf(len, len), score |-> score,
      other_score |-> ScoreVec(17, 3, 9)] :
        n \in 1..2, len \in 1..2,
        score \in {ScoreVec(2, 17, 9), ScoreVec(17, 0, 9)}}

\* RandomStrategy.choose_move
RandomChooseMove ==
    /\ strat.type = "random"
    /\ ncalls < MaxCalls
    /\ \E g \in HeurGames, inference \in BOOLEAN :
         LET possible_moves == PossibleMoves(g.board, g.deck)
             idx_draws == choose_random_move_draws(Len(possible_moves))
         IN  \E random_idx \in idx_draws, coin \in choose_should_exchange_draws :
                out' = [n |-> Len(possible_moves),
                        idx |-> random_idx,
                        idx_draws |-> idx_draws,
                        move |-> possible_moves[random_idx + 1],
                        should_exchange |-> choose_should_exchange(inference, coin),
                        exchange_draws |-> {choose_should_exchange(inference, d) :
                                               d \in choose_should_exchange_draws},
                        inference |-> inference,
                        margin |-> 0]
    /\ ncalls' = ncalls + 1
    /\ UNCHANGED <<strat, search_vars, call_vars>>

\* what a ReduceDeficit-based choose_move returns, with the margin it used
DeficitOut(g, margin, inference, coin) ==
    LET possible_moves == PossibleMoves(g.board, g.deck)
        idx == choose_reduce_deficit_move(g.board, g.deck, g.score,
                                          g.other_score, margin)
    IN  [n |-> Len(possible_moves),
         idx |-> idx - 1,
         idx_draws |-> {idx - 1},
         move |-> possible_moves[idx],
         should_exchange |-> choose_should_exchange(inference, coin),
         exchange_draws |-> {choose_should_exchange(inference, d) :
                                d \in choose_should_exchange_draws},
         inference |-> inference,
         margin |-> margin]

\* MixedStrategy3.choose_move
Mixed3ChooseMove ==
    /\ strat.type = "mixed_3"
    /\ ncalls < MaxCalls
    /\ \E g \in HeurGames, inference \in BOOLEAN,
          coin \in choose_should_exchange_draws :
         out' = DeficitOut(g, strat.margin, inference, coin)
    /\ strat' = [strat EXCEPT !.margin = decayed_margin(strat.margin)]
    /\ ncalls' = ncalls + 1
    /\ UNCHANGED <<search_vars, call_vars>>

\* MixedStrategy4.choose_move
Mixed4ChooseMove ==
    /\ strat.type = "mixed_4"
    /\ ncalls < MaxCalls
    /\ \E g \in HeurGames, inference \in BOOLEAN,
          coin \in choose_should_exchange_draws :
         out' = DeficitOut(g, strat.margin, inference, coin)
    /\ strat' = IF strat.count = 0
                THEN [strat EXCEPT !.margin = decayed_margin(strat.margin),
                                   !.count = 4]
                ELSE [strat EXCEPT !.count = @ - 1]
    /\ ncalls' = ncalls + 1
    /\ UNCHANGED <<search_vars, call_vars>>

(***************************************************************************)
(* The search specification: choose_move of a 2-ply or 3-ply strategy is   *)
(* called once, on a live game drawn from a bounded set.                   *)
(***************************************************************************)
InitSearch ==
    /\ \E board \in SearchBoards, score \in SearchScores,
          other_score \in SearchOtherScores :
       \E deck \in SearchDecks(board) :
          /\ heap = [c \in LiveCells |->
                        CASE c = "board_original" -> board
                          [] c = "deck_original" -> deck
                          [] c = "score_original" -> score
                          [] c = "other_score_original" -> other_score]
          /\ live0 = heap
    /\ strategy_type \in {"rl_vanilla", "rl_2ply", "rl_3ply"}
    /\ turn_of \in Players
    /\ \E build \in SearchBuilds : est = build[1] /\ ties = build[2]
    /\ pc = "rank"
    /\ args = None
    /\ call = None
    /\ buffer = None
    /\ i = 0
    /\ representations_original = <<>>
    /\ move_values_original = <<>>
    /\ top_k_indices = <<>>
    /\ top_k_values = <<>>
    /\ frame = None
    /\ mt = None
    /\ ret = None
    /\ rets = <<>>
    /\ result = None
    /\ strat = None
    /\ ncalls = 0
    /\ out = None

Next ==
    \/ VanillaChooseMove
    \/ Rank
    \/ BranchStart
    \/ MockTurnStep
    \/ YourMoveDone
    \/ OthersMoveDone2
    \/ OthersMoveDone3
    \/ SecondMoveDone3
    \/ Select

Spec == InitSearch /\ [][Next]_vars

(***************************************************************************)
(* The heuristic specification: a strategy object is constructed by        *)
(* get_strategy and choose_move is called on it up to MaxCalls times.      *)
(***************************************************************************)
HeuristicTypes == {"random", "mixed_3", "mixed_4"}

InitHeur ==
    /\ strat \in {get_strategy(type) : type \in HeuristicTypes}
    /\ ncalls = 0
    /\ out = None
    /\ heap = None
    /\ live0 = None
    /\ strategy_type = "none"
    /\ turn_of = 0
    /\ est = 0
    /\ ties = "index"
    /\ pc = "idle"
    /\ args = None
    /\ call = None
    /\ buffer = None
    /\ i = 0
    /\ representations_original = <<>>
    /\ move_values_original = <<>>
    /\ top_k_indices = <<>>
    /\ top_k_values = <<>>
    /\ frame = None
    /\ mt = None
    /\ ret = None
    /\ rets = <<>>
    /\ result = None

NextHeur ==
    \/ RandomChooseMove
    \/ Mixed3ChooseMove
    \/ Mixed4ChooseMove

SpecHeur == InitHeur /\ [][NextHeur]_vars

(***************************************************************************)
(* The move choosers of the heuristic strategies (strategy.py lines        *)
(* 44-156).  A chooser returns the index, from 1, of the candidate it      *)
(* picks in possible_moves.                                                *)
(***************************************************************************)
\* total_scores_diff: np.sum(updated_scores - original_score, axis=1)
TotalScoresDiff(score, updated_move_scores) ==
    Array([k \in 1..Len(updated_move_scores) |->
        SumVec(updated_move_scores[k]) - SumVec(score)])

\* (changed) the first candidate, whatever it scores
choose_first_move(board, deck, score) == 1

\* choose_max_scoring_move
choose_max_scoring_move(board, deck, score) ==
    LET possible_moves == PossibleMoves(board, deck)
        updated_scores == UpdatedMoveScores(board, score, possible_moves)
    IN  ArgMax(TotalScoresDiff(score, updated_scores))

\* np.where(v == np.min(v))[0]: the colours at which v is minimal
MinIdxs(v) == {c \in Colours : v[c] = MinOf({v[d] : d \in Colours})}

\* total_min_scores: np.sum(updated_move_scores[:, min_idxs], axis=1)
TotalMinScores(updated_move_scores, min_idxs) ==
    Array([k \in 1..Len(updated_move_scores) |->
        SumSeq([c \in Colours |->
            IF c \in min_idxs THEN updated_move_scores[k][c] ELSE 0])])

\* np.where(v == x)[0]
WhereEq(v, x) == SelectSeq([k \in 1..Len(v) |-> k], LAMBDA k : v[k] = x)

\* (changed) the first candidate with the best aggregate, whatever it gains
BestByMinScoresFirst(score, updated_move_scores, total_min_scores) ==
    WhereEq(total_min_scores,
            MaxOf({total_min_scores[k] : k \in 1..Len(total_min_scores)}))[1]

\* the branch max_total_min_score > 0 shared by choose_increase_min_move and
\* choose_increase_other_min_move: the best aggregate, ties by score gain
BestByMinScores(score, updated_move_scores, total_min_scores) ==
    LET max_total_min_score ==
            MaxOf({total_min_scores[k] : k \in 1..Len(total_min_scores)})
        max_total_min_scores_idxs == WhereEq(total_min_scores, max_total_min_score)
        best_moves_updated_scores ==
            [k \in 1..Len(max_total_min_scores_idxs) |->
                updated_move_scores[max_total_min_scores_idxs[k]]]
    IN  IF Len(max_total_min_scores_idxs) = 1 THEN max_total_min_scores_idxs[1]
        ELSE max_total_min_scores_idxs[
                 ArgMax(TotalScoresDiff(score, best_moves_updated_scores))]

\* (changed) the aggregate is taken for the first candidate only
choose_increase_min_move_first(board, deck, score) ==
    LET possible_moves == PossibleMoves(board, deck)
        updated_move_scores == UpdatedMoveScores(board, score, possible_moves)
        total_min_scores == TotalMinScores(updated_move_scores, MinIdxs(score))
    IN  IF total_min_scores[1] > 0 THEN 1
        ELSE choose_max_scoring_move(board, deck, score)

\* choose_increase_min_move
choose_increase_min_move(board, deck, score) ==
    LET possible_moves == PossibleMoves(board, deck)
        min_idxs == MinIdxs(score)
        updated_move_scores == UpdatedMoveScores(board, score, possible_moves)
        total_min_scores == TotalMinScores(updated_move_scores, min_idxs)
        max_total_min_score ==
            MaxOf({total_min_scores[k] : k \in 1..Len(total_min_scores)})
    IN  IF max_total_min_score > 0
        THEN BestByMinScores(score, updated_move_scores, total_min_scores)
        ELSE choose_max_scoring_move(board, deck, score)

\* (changed) the fallback is choose_max_scoring_move
choose_increase_other_min_move_max(board, deck, score, other_score) ==
    LET possible_moves == PossibleMoves(board, deck)
        updated_move_scores == UpdatedMoveScores(board, score, possible_moves)
        total_min_scores == TotalMinScores(updated_move_scores, MinIdxs(other_score))
        max_total_min_score ==
            MaxOf({total_min_scores[k] : k \in 1..Len(total_min_scores)})
    IN  IF max_total_min_score > 0
        THEN BestByMinScores(score, updated_move_scores, total_min_scores)
        ELSE choose_max_scoring_move(board, deck, score)

\* choose_increase_other_min_move
choose_increase_other_min_move(board, deck, score, other_score) ==
    LET possible_moves == PossibleMoves(board, deck)
        min_idxs == MinIdxs(other_score)
        updated_move_scores == UpdatedMoveScores(board, score, possible_moves)
        total_min_scores == TotalMinScores(updated_move_scores, min_idxs)
        max_total_min_score ==
            MaxOf({total_min_scores[k] : k \in 1..Len(total_min_scores)})
    IN  IF max_total_min_score > 0
        THEN BestByMinScores(score, updated_move_scores, total_min_scores)
        ELSE choose_increase_min_move(board, deck, score)

(***************************************************************************)
(* The call specification: one call of a move chooser, of the encoder or   *)
(* of the predictor on a game drawn from CallGames.                        *)
(***************************************************************************)
\* boards with one or two free sites, and the full board
CallBoards == {Board({}), Board({1}), Board({1, 2}), Board({1, 3})}
CallDecks == {<<<<1, 1>>>>, <<<<1, 1>>, <<2, 2>>>>, DeckOf(1, 3), DeckOf(2, 2)}
CallScores == {<<18, 0, 0, 0, 0, 0>>, <<5, 17, 0, 0, 0, 0>>,
               ScoreVec(2, 17, 9), ScoreVec(17, 9, 3), ScoreVec(9, 17, 9)}
CallOtherScores == {ScoreVec(17, 3, 9), ScoreVec(3, 18, 9), <<9, 9, 9, 0, 9, 9>>}
CallGames ==
    {[board |-> board, deck |-> deck, score |-> score, other_score |-> other_score] :
        board \in CallBoards, deck \in CallDecks,
        score \in CallScores, other_score \in CallOtherScores}
\* the margins ReduceDeficit is called with: those of ReduceDeficitStrategy,
\* MixedStrategy3 and MixedStrategy4, and the floor
Margins == {0, 5, 15}

\* the estimators and the values of max_batch the predictor is called with
Estimators == {1, 2}
MaxBatches == {1, 2, 3, max_batch_default}

\* a call is made on a fresh game with at least one candidate
CanChoose ==
    /\ call = None
    /\ Len(PossibleMoves(args.board, args.deck)) > 0

\* MaxStrategy.choose_move: the move chosen
MaxChooseMove ==
    /\ CanChoose
    /\ call' = [op |-> "max",
                idx |-> choose_max_scoring_move(args.board, args.deck, args.score)]
    /\ UNCHANGED <<args, buffer, search_vars, heur_vars>>

\* IncreaseMinStrategy.choose_move: the move chosen
IncreaseMinChooseMove ==
    /\ CanChoose
    /\ call' = [op |-> "increase_min",
                idx |-> choose_increase_min_move(args.board, args.deck, args.score)]
    /\ UNCHANGED <<args, buffer, search_vars, heur_vars>>

\* IncreaseOtherMinStrategy.choose_move: the move chosen
IncreaseOtherMinChooseMove ==
    /\ CanChoose
    /\ call' = [op |-> "increase_other_min",
                idx |-> choose_increase_other_min_move(args.board, args.deck,
                            args.score, args.other_score)]
    /\ UNCHANGED <<args, buffer, search_vars, heur_vars>>

\* ReduceDeficitStrategy.choose_move: the move chosen, for a margin
ReduceDeficitChooseMove ==
    /\ CanChoose
    /\ \E margin \in Margins :
          call' = [op |-> "reduce_deficit", margin |-> margin,
                   idx |-> choose_reduce_deficit_move(args.board, args.deck,
                               args.score, args.other_score, margin)]
    /\ UNCHANGED <<args, buffer, search_vars, heur_vars>>

\* generate_batched on the first n candidates of the game
GenerateBatched ==
    /\ call = None
    /\ \E n \in 0..Minimum(MaxRows, Len(PossibleMoves(args.board, args.deck))) :
          LET possible_moves == SubSeq(PossibleMoves(args.board, args.deck), 1, n)
              returned == generate_batched_reprs(args.board, args.deck, args.score,
                              args.other_score, 1, possible_moves)
          IN  call' = [op |-> "generate_batched", n |-> n,
                       representations |-> returned.representations,
                       possible_moves_subset |-> returned.possible_moves_subset]
    /\ UNCHANGED <<args, buffer, search_vars, heur_vars>>

\* predict_values on the first n rows of the game's encoding, for an
\* estimator and a max_batch
PredictValues ==
    /\ call = None
    /\ LET rows == get_representations(args.board, args.deck, args.score,
                                       args.other_score, 1)
       IN  \E n \in 1..Minimum(MaxRows, Len(rows)) :
           \E est_ \in Estimators, max_batch \in MaxBatches :
              call' = [op |-> "predict_values", n |-> n, est |-> est_,
                       max_batch |-> max_batch,
                       passes |-> SubBatches(n, max_batch),
                       values |-> predict_values(est_, SubSeq(rows, 1, n), max_batch)]
    /\ UNCHANGED <<args, buffer, search_vars, heur_vars>>

\* the identifiers get_strategy is called with: the twelve it knows and
\* some it does not
StrategyIds ==
    {"random", "max", "increase_min", "increase_other_min", "reduce_deficit",
     "mixed_1", "mixed_2", "mixed_3", "mixed_4", "rl", "rl_2ply", "rl_3ply",
     "", "Random", "rl_1ply", "rl_4ply", "mixed_5"}

\* get_strategy(strategy_type)
GetStrategy ==
    /\ call = None
    /\ \E id \in StrategyIds :
          call' = [op |-> "get_strategy", id |-> id, returned |-> get_strategy(id)]
    /\ UNCHANGED <<args, buffer, search_vars, heur_vars>>

\* the batch sizes the extra channels are built for
ChannelBatches == 1..2

\* get_extra_grid_feature_channels(b)
GetExtraGridFeatureChannels ==
    /\ call = None
    /\ \E b \in ChannelBatches :
          call' = [op |-> "get_extra_grid_feature_channels", b |-> b,
                   channels |-> get_extra_grid_feature_channels(b)]
    /\ UNCHANGED <<args, buffer, search_vars, heur_vars>>

\* prepare_model_inputs on the Representation of the first n candidates of
\* the game, for the draws of the shuffles and of the two flips
PrepareModelInputs ==
    /\ call = None
    /\ \E n \in 1..Minimum(2, Len(PossibleMoves(args.board, args.deck))) :
       \E orderings \in [1..(2 * n) -> Orderings] :
       \E flip_i \in RandInt(0, 2), flip_j \in RandInt(0, 2) :
          LET r == generate_batched_reprs(args.board, args.deck, args.score,
                       args.other_score, 1,
                       SubSeq(PossibleMoves(args.board, args.deck), 1, n)
                   ).representations
              done == prepare_model_inputs(r, orderings, flip_i, flip_j)
          IN  /\ \A k \in (Len(r.rows) + 1)..(2 * n) : orderings[k] = orderings[1]
              /\ call' = [op |-> "prepare_model_inputs", orderings |-> orderings,
                          before |-> r, after |-> done.r,
                          flips |-> <<flip_i, flip_j>>]
    /\ UNCHANGED <<args, buffer, search_vars, heur_vars>>

\* the selection steps of choose_move (np.argmax of RLVanilla, top_k_indices
\* of the ply searches) on the predicted values of the game's first n rows,
\* when the network's output for one row is non-finite
RankValues ==
    /\ call = None
    /\ LET rows == get_representations(args.board, args.deck, args.score,
                                       args.other_score, 1)
       IN  \E n \in {2, search_n + 1} \cap 2..Len(rows) :
           \E est_ \in Estimators, bad \in {1, n}, value \in NonFinite :
              LET predicted == predict_values(est_, SubSeq(rows, 1, n),
                                              max_batch_default).data
                  move_values == [predicted EXCEPT ![bad] = value]
                  num_to_search == Minimum(search_n, n)
              IN  call' = [op |-> "rank_values", n |-> n,
                           move_values |-> move_values,
                           chosen |-> VanillaSelect(move_values,
                                                    SubSeq(rows, 1, n)),
                           top_k_indices |-> TopK(move_values, "index",
                                                  num_to_search)]
    /\ UNCHANGED <<args, buffer, search_vars, heur_vars>>

InitCalls ==
    /\ args \in CallGames
    /\ call = None
    /\ buffer = None
    /\ strat = None
    /\ ncalls = 0
    /\ out = None
    /\ heap = None
    /\ live0 = None
    /\ strategy_type = "none"
    /\ turn_of = 0
    /\ est = 0
    /\ ties = "index"
    /\ pc = "idle"
    /\ i = 0
    /\ representations_original = <<>>
    /\ move_values_original = <<>>
    /\ top_k_indices = <<>>
    /\ top_k_values = <<>>
    /\ frame = None
    /\ mt = None
    /\ ret = None
    /\ rets = <<>>
    /\ result = None

NextCalls ==
    \/ MaxChooseMove
    \/ IncreaseMinChooseMove
    \/ IncreaseOtherMinChooseMove
    \/ ReduceDeficitChooseMove
    \/ GenerateBatched
    \/ PredictValues
    \/ GetStrategy
    \/ GetExtraGridFeatureChannels
    \/ PrepareModelInputs
    \/ RankValues

SpecCalls == InitCalls /\ [][NextCalls]_vars

(***************************************************************************)
(* A RepresentationsBuffer under a sequence of its setters, combine_reprs  *)
(* and clip_to_size.  The rows and the Representations handed to it are    *)
(* encodings of one game's candidates, as generate and generate_batched    *)
(* build them.                                                             *)
(***************************************************************************)
BufferGame == [board |-> Board({1, 2}), deck |-> DeckOf(2, 2),
               score |-> ScoreVec(2, 17, 9), other_score |-> ScoreVec(17, 3, 9)]

\* encodings of the first n candidates, n = 0..2
BufferBatches ==
    {generate_batched(BufferGame.board, BufferGame.deck, BufferGame.score,
                      BufferGame.other_score, 1,
                      SubSeq(PossibleMoves(BufferGame.board, BufferGame.deck), 1, n))
        : n \in 0..2}

\* single encoded rows
BufferRows == UNION {{batch[k] : k \in 1..Len(batch)} : batch \in BufferBatches}

\* Representations as generate and generate_batched return them
FreshReprs ==
    {set_single_reprs_from_scratch(RepresentationsBuffer, row) : row \in BufferRows}
    \cup {set_batched_reprs_from_scratch(RepresentationsBuffer, batch) :
              batch \in BufferBatches}

\* the Representations handed to a buffer: fresh ones, and two single ones
\* combined
BufferReprs ==
    FreshReprs
    \cup {combine_reprs(set_single_reprs_from_scratch(RepresentationsBuffer, r1),
                        set_single_reprs_from_scratch(RepresentationsBuffer, r2)) :
              r1 \in BufferRows, r2 \in BufferRows}

\* the buffer stays within the bound on its rows and on its size field
BufferBounded(b) == Len(b.rows) <= MaxBufferRows /\ b.size <= MaxBufferRows

BufferFrame == UNCHANGED <<args, call, search_vars, heur_vars>>

SetSingleReprsFromScratch ==
    /\ buffer # None
    /\ \E row \in BufferRows :
          /\ buffer' = set_single_reprs_from_scratch(buffer, row)
          /\ BufferBounded(buffer')
    /\ BufferFrame

SetBatchedReprsFromScratch ==
    /\ buffer # None
    /\ \E batch \in BufferBatches :
          /\ buffer' = set_batched_reprs_from_scratch(buffer, batch)
          /\ BufferBounded(buffer')
    /\ BufferFrame

SetReprsFromReprs ==
    /\ buffer # None
    /\ \E reprs \in BufferReprs :
          /\ buffer' = set_reprs_from_reprs(buffer, reprs)
          /\ BufferBounded(buffer')
    /\ BufferFrame

CombineReprs ==
    /\ buffer # None
    /\ \E reprs \in BufferReprs :
          /\ buffer' = combine_reprs(buffer, reprs)
          /\ BufferBounded(buffer')
    /\ BufferFrame

\* clip_to_size on a buffer whose arrays have been set
ClipToSize ==
    /\ buffer # None
    /\ buffer.empty = 0
    /\ \E required_size \in 0..MaxBufferRows :
          buffer' = clip_to_size(buffer, required_size)
    /\ BufferFrame

InitBuffer ==
    /\ buffer = RepresentationsBuffer
    /\ args = None
    /\ call = None
    /\ strat = None
    /\ ncalls = 0
    /\ out = None
    /\ heap = None
    /\ live0 = None
    /\ strategy_type = "none"
    /\ turn_of = 0
    /\ est = 0
    /\ ties = "index"
    /\ pc = "idle"
    /\ i = 0
    /\ representations_original = <<>>
    /\ move_values_original = <<>>
    /\ top_k_indices = <<>>
    /\ top_k_values = <<>>
    /\ frame = None
    /\ mt = None
    /\ ret = None
    /\ rets = <<>>
    /\ result = None

NextBuffer ==
    \/ SetReprsFromReprs
    \/ CombineReprs
    \/ ClipToSize
    \/ SetSingleReprsFromScratch
    \/ SetBatchedReprsFromScratch

SpecBuffer == InitBuffer /\ [][NextBuffer]_vars

(***************************************************************************)
(* Properties of the search (checked under Spec).                          *)
(***************************************************************************)
\* the rows searched
Searched == {top_k_indices[k] : k \in 1..Len(top_k_indices)}

\* a branch value has just been recorded for branch i - 1, whose copies and
\* mock_turn returns are still in place
Recorded == pc \in {"branch", "select"} /\ i >= 2

\* C1: during a 2-ply or 3-ply choose_move call the live board, deck, score
\* and other_score are never changed, mock_turn never works on a live
\* object, and every branch starts from copies equal to the live state,
\* whatever earlier branches did to theirs.
C1_LiveStateUntouched ==
    /\ Live(heap) = Live(live0)
    /\ pc = "mock_turn" =>
          {mt.board, mt.score, mt.other_score, mt.deck} \cap LiveCells = {}
    /\ (pc = "mock_turn" /\ mt.ply = 1 /\ mt.iters = 0) =>
          /\ heap[mt.board] = live0["board_original"]
          /\ heap[mt.score] = live0["score_original"]
          /\ heap[mt.other_score] = live0["other_score_original"]
          /\ heap[mt.deck] = live0["deck_original"]

\* the last of search_n branches starts, after the earlier ones changed
\* their copies
C1_Witness ==
    /\ pc = "mock_turn" /\ mt.ply = 1 /\ mt.iters = 0
    /\ i = search_n
    /\ heap[mt.board] = live0["board_original"]

\* C2: for either player as the simulating player, a mock_turn that ends
\* the game returns game_finished with value +1 when the simulating player's
\* final score wins the comparison and -1 when it loses.  (Stated for the
\* mover's first turn and the opponent's turn, where the frame's score is
\* the score of the player named by its turn_of.)
C2_TerminalValueOfSimulatingPlayer ==
    (pc = "returned" /\ mt.ply \in {1, 2} /\ ret.game_finished) =>
        LET winner == find_winner_fast(heap[mt.score], heap[mt.other_score])
        IN  /\ winner = 1 => ret.move_value = 1
            /\ winner = 2 => ret.move_value = -1

\* C3: in 3-ply search, when the mover's second turn ends the game the
\* branch records +1 if the original mover's final score wins and -1 if it
\* loses.
C3_ThirdPlyValue ==
    (Recorded /\ strategy_type = "rl_3ply" /\ Len(rets) = 3
        /\ rets[3].game_finished) =>
        LET winner == find_winner_fast(heap[frame.score], heap[frame.other_score])
        IN  /\ winner = 1 => top_k_values[i - 1] = 1
            /\ winner = 2 => top_k_values[i - 1] = -1

\* C4: in 2-ply search the value recorded for a branch is the mover's
\* mock_turn value when that turn ended the game, and otherwise the negated
\* value of the opponent's mock_turn, whether or not it ended the game.
C4_TwoPlyBranchValue ==
    (Recorded /\ strategy_type = "rl_2ply") =>
        /\ Len(rets) = IF rets[1].game_finished THEN 1 ELSE 2
        /\ top_k_values[i - 1] =
              IF rets[1].game_finished THEN rets[1].move_value
              ELSE 0 - rets[2].move_value

\* the opponent's reply ended the game with the opponent losing: +1 recorded
C4_Witness ==
    /\ Recorded /\ strategy_type = "rl_2ply"
    /\ Len(rets) = 2 /\ rets[2].game_finished /\ rets[2].move_value = -1
    /\ top_k_values[i - 1] = 1

\* C5: choose_move searches exactly min(8, rows) distinct rows, none of them
\* with a smaller depth-0 value than an unsearched row, and returns the
\* searched row of maximal recorded branch value, that value as confidence,
\* and the should-exchange field of that row's depth-0 general_repr.
C5_TopKAndSelection ==
    (pc = "done" /\ strategy_type \in {"rl_2ply", "rl_3ply"}) =>
        LET n == Len(representations_original)
            k == Minimum(search_n, n)
            best == MaxOf({top_k_values[j] : j \in 1..k})
        IN  /\ Len(top_k_indices) = k
            /\ Cardinality(Searched) = k
            /\ i = k + 1
            /\ \A r \in Searched : \A u \in (1..n) \ Searched :
                  move_values_original[r] >= move_values_original[u]
            /\ \E j \in 1..k :
                  /\ top_k_indices[j] = result.best_move_idx
                  /\ top_k_values[j] = best
            /\ result.best_move_value = best
            /\ result.best_move = representations_original[result.best_move_idx].move
            /\ result.should_exchange =
                  representations_original[result.best_move_idx].general[4]

\* more than 8 rows, an unsearched row of strictly smaller value, and an
\* exchange row returned
C5_Witness ==
    /\ pc = "done" /\ strategy_type \in {"rl_2ply", "rl_3ply"}
    /\ Len(representations_original) > search_n
    /\ \E u \in (1..Len(representations_original)) \ Searched :
          \E r \in Searched : move_values_original[u] < move_values_original[r]
    /\ result.should_exchange = 1

\* C6: mock_turn's loop makes at most NumColours * ScoreCap passes, each of
\* which puts a tile on the board; it goes on only while the game is
\* unfinished, and returns game_finished exactly when the game has ended.
C6_MockTurnBounded ==
    /\ pc \in {"mock_turn", "returned"} =>
          /\ mt.iters <= NumColours * ScoreCap
          /\ mt.iters <= heap[mt.board].move_num
    /\ pc = "mock_turn" => ~GameIsFinished(heap[mt.board])
    /\ pc = "returned" =>
          /\ mt.iters >= 1
          /\ ret.game_finished = GameIsFinished(heap[mt.board])

\* a chain of bonus moves that ends at the first non-ingenious move
C6_Witness ==
    pc = "returned" /\ mt.iters >= 3 /\ ~ret.game_finished

\* exchange is legal in the depth-0 state after move
ExchangeLegalAfter(move) ==
    CanExchange(PlayTile(live0["deck_original"], <<move.t1, move.t2>>),
                UpdateScore(live0["score_original"],
                            MoveScore(live0["board_original"], move)).score)

\* C18: in every encoded row the should-exchange field is 1 only if the
\* can-exchange field is 1, for rows of generate_batched and of generate;
\* and the should-exchange flag Vanilla, 2-ply and 3-ply choose_move return
\* is never 1 for a move after which exchange is illegal in the depth-0
\* state.
C18_ShouldExchangeOnlyIfCan ==
    /\ \A k \in 1..Len(representations_original) :
          representations_original[k].general[4] = 1
              => representations_original[k].general[3] = 1
    /\ \A can_exchange \in {0, 1}, should_exchange \in {0, 1} :
          LET general == generate(heap["board_original"], heap["deck_original"],
                             heap["score_original"], heap["other_score_original"],
                             0, 0, can_exchange, should_exchange,
                             turn_of).rows[1].general
          IN  general[4] = 1 => general[3] = 1
    /\ pc = "done" =>
          (result.should_exchange = 1 => ExchangeLegalAfter(result.best_move))

\* a search returns an exchange although exchange is illegal after some
\* candidate of the batch
C18_Witness ==
    /\ pc = "done" /\ strategy_type = "rl_2ply"
    /\ result.should_exchange = 1
    /\ \E k \in 1..Len(representations_original) :
          representations_original[k].general[3] = 0

\* the search has recorded a branch whose last mock_turn ended the game in a
\* draw
DrawRecorded ==
    /\ Recorded /\ Len(rets) >= 1
    /\ rets[Len(rets)].game_finished
    /\ find_winner_fast(heap[frame.score], heap[frame.other_score]) = 0

\* C29: a drawn terminal state is valued the same for the original mover
\* whichever ply it is reached on: mock_turn gives a draw the value -1 for
\* the player who made the last move, and the branch value recorded for a
\* draw on the opponent's ply equals the -1 recorded for a draw on the
\* mover's ply.
C29_DrawValuedAlike ==
    DrawRecorded =>
        /\ rets[Len(rets)].move_value = -1
        /\ top_k_values[i - 1] = -1

\* C30: when several searched rows share the maximal branch value, the row
\* returned by 2-ply and 3-ply search is the tied row with the highest
\* depth-0 predicted value.
C30_TieGoesToHighestDepth0 ==
    (pc = "done" /\ strategy_type \in {"rl_2ply", "rl_3ply"}) =>
        \A j \in 1..Len(top_k_indices) :
            top_k_values[j] = result.best_move_value =>
                move_values_original[result.best_move_idx]
                    >= move_values_original[top_k_indices[j]]

\* C22: Vanilla returns the move of the row whose predicted value is maximal
\* over all encoded rows, the should-exchange flag stored in that row's
\* general-info vector, and that row's predicted value as confidence.
C22_VanillaArgmax ==
    (pc = "done" /\ strategy_type = "rl_vanilla") =>
        LET row == representations_original[result.best_move_idx]
        IN  /\ \A k \in 1..Len(move_values_original) :
                  move_values_original[result.best_move_idx]
                      >= move_values_original[k]
            /\ result.best_move = row.move
            /\ result.should_exchange = row.general[4]
            /\ result.best_move_value = move_values_original[result.best_move_idx]

\* the winning row is an exchange row and not the first row
C22_Witness ==
    /\ pc = "done" /\ strategy_type = "rl_vanilla"
    /\ result.best_move_idx > 1
    /\ result.should_exchange = 1
    /\ \E k \in 1..Len(move_values_original) :
          move_values_original[k] < result.best_move_value

(***************************************************************************)
(* Properties of the heuristic strategies (checked under SpecHeur).        *)
(***************************************************************************)
Maximum(a, b) == IF a >= b THEN a ELSE b

\* C7: the exchange decision of a heuristic strategy can come out both ways
\* when inference is false, and is always true when inference is true.
C7_ExchangeIsFairCoin ==
    ncalls > 0 =>
        out.exchange_draws = IF out.inference THEN {TRUE} ELSE {TRUE, FALSE}

\* C8: the Random strategy can return every candidate index 0..n-1 of a
\* batch of n candidates.
C8_RandomCoversBatch ==
    (ncalls > 0 /\ strat.type = "random") =>
        out.idx_draws = 0..(out.n - 1)

\* C9: the n-th call of Mixed3 uses margin max(15 - (n - 1), 0), and the
\* stored margin is never negative.
C9_Mixed3Margin ==
    strat.type = "mixed_3" =>
        /\ strat.margin >= 0
        /\ ncalls > 0 => out.margin = Maximum(15 - (ncalls - 1), 0)

\* C10: the n-th call of Mixed4 uses margin max(5 - floor((n - 1) / 5), 0),
\* and the stored margin is never negative.
C10_Mixed4Margin ==
    strat.type = "mixed_4" =>
        /\ strat.margin >= 0
        /\ ncalls > 0 => out.margin = Maximum(5 - ((ncalls - 1) \div 5), 0)

(***************************************************************************)
(* Properties of the move choosers (checked under SpecCalls).              *)
(***************************************************************************)
Called(op) == call # None /\ call.op = op

\* the candidates of the game the call is made on, their post-move scores
\* and their total score gains
CallMoves == PossibleMoves(args.board, args.deck)
CallPost == UpdatedMoveScores(args.board, args.score, CallMoves)
Candidates == 1..Len(CallMoves)
Gain(k) == SumVec(CallPost[k]) - SumVec(args.score)

\* the sum of candidate k's post-move scores over the colours at which v is
\* minimal
Aggregate(k, v) ==
    LET least == MinOf({v[c] : c \in Colours})
    IN  SumSeq([c \in Colours |-> IF v[c] = least THEN CallPost[k][c] ELSE 0])
BestAggregate(v) == MaxOf({Aggregate(k, v) : k \in Candidates})

\* candidate idx attains the best aggregate over the minimal colours of v and
\* has maximal gain among the candidates that do
BestThenGain(idx, v) ==
    /\ Aggregate(idx, v) = BestAggregate(v)
    /\ \A k \in Candidates :
          Aggregate(k, v) = BestAggregate(v) => Gain(idx) >= Gain(k)

\* C11: the candidate Max chooses has a total score gain greater than or
\* equal to that of every other candidate.
C11_MaxHasMaximalGain ==
    Called("max") => \A k \in Candidates : Gain(call.idx) >= Gain(k)

\* the chosen candidate is not the first and beats some candidate
C11_Witness ==
    /\ Called("max")
    /\ call.idx > 1
    /\ \E k \in Candidates : Gain(k) < Gain(call.idx)

\* no candidate raises a colour at which the mover's score is minimal
NoMinRaised ==
    \A k \in Candidates : \A c \in MinIdxs(args.score) :
        CallPost[k][c] = args.score[c]

\* C12: whenever no candidate raises a minimum-index colour of the mover
\* above the pre-move minimum, whatever that minimum is, IncreaseMin chooses
\* the move Max chooses for the same inputs.
C12_IncreaseMinFallsBackToMax ==
    (Called("increase_min") /\ NoMinRaised) =>
        call.idx = choose_max_scoring_move(args.board, args.deck, args.score)

\* a positive minimum that no candidate raises, Max's move not being the
\* first candidate
C12_Witness ==
    /\ Called("increase_min") /\ NoMinRaised
    /\ MinOf({args.score[c] : c \in Colours}) > 0
    /\ call.idx > 1

\* C13: when some candidate gives a positive aggregate, IncreaseMin chooses
\* a candidate attaining the best aggregate over the mover's minimal
\* colours and, among those, one of maximal total score gain.
C13_IncreaseMinBestAggregate ==
    (Called("increase_min") /\ BestAggregate(args.score) > 0) =>
        BestThenGain(call.idx, args.score)

\* a candidate below the best aggregate exists, and the gain decides between
\* two candidates that attain it
C13_Witness ==
    /\ Called("increase_min") /\ BestAggregate(args.score) > 0
    /\ \E k \in Candidates : Aggregate(k, args.score) < BestAggregate(args.score)
    /\ \E k \in Candidates :
          /\ Aggregate(k, args.score) = BestAggregate(args.score)
          /\ Gain(k) < Gain(call.idx)

TotalDeficit(k, margin) ==
    SumSeq([c \in Colours |->
        Maximum(args.other_score[c] - CallPost[k][c] + margin, 0)])

\* C15: ReduceDeficit(margin) chooses a candidate of minimal summed deficit,
\* the deficit of a colour being max(opponent - post-move + margin, 0), and
\* among the candidates of minimal summed deficit one of maximal total gain.
C15_ReduceDeficitMinimal ==
    Called("reduce_deficit") =>
        /\ \A k \in Candidates :
              TotalDeficit(call.idx, call.margin) <= TotalDeficit(k, call.margin)
        /\ \A k \in Candidates :
              TotalDeficit(k, call.margin) = TotalDeficit(call.idx, call.margin)
                  => Gain(call.idx) >= Gain(k)

\* the chosen candidate gains less than another candidate of higher deficit
C15_Witness ==
    /\ Called("reduce_deficit")
    /\ \E k \in Candidates :
          /\ Gain(k) > Gain(call.idx)
          /\ TotalDeficit(k, call.margin) > TotalDeficit(call.idx, call.margin)

\* C16: for a fixed game, candidate and colour the deficit is monotonic in
\* the margin: with margins a <= b the deficit for a is at most that for b.
C16_DeficitMonotonic ==
    Called("reduce_deficit") =>
        \A k \in Candidates : \A c \in Colours : \A b \in Margins :
            call.margin <= b =>
                Deficit(args.other_score, CallPost[k], call.margin, c)
                    <= Deficit(args.other_score, CallPost[k], b, c)

\* a deficit that grows with the margin and one that stays at the floor
C16_Witness ==
    /\ Called("reduce_deficit")
    /\ \E k \in Candidates : \E c \in Colours : \E b \in Margins :
          /\ call.margin < b
          /\ Deficit(args.other_score, CallPost[k], call.margin, c)
                < Deficit(args.other_score, CallPost[k], b, c)
    /\ \E k \in Candidates : \E c \in Colours : \E b \in Margins :
          /\ call.margin < b
          /\ Deficit(args.other_score, CallPost[k], b, c) = 0

(***************************************************************************)
(* Properties of the encoder and the predictor (checked under SpecCalls).  *)
(***************************************************************************)
\* exchange is illegal after candidate k: the deck left after playing its
\* tile holds a colour at which the score after the move is minimal
ExchangeIllegalAfter(k) ==
    ~CanExchange(PlayTile(args.deck, <<CallMoves[k].t1, CallMoves[k].t2>>),
                 CallPost[k])

\* C17: for a batch of n candidates generate_batched returns a Representation
\* of 2 * n - (number of candidates after which exchange is illegal) rows,
\* and a move subset of as many rows.
C17_BatchedRowCount ==
    Called("generate_batched") =>
        LET expected ==
                2 * call.n - Cardinality({k \in 1..call.n : ExchangeIllegalAfter(k)})
        IN  /\ call.representations.size = expected
            /\ Len(call.representations.rows) = expected
            /\ Len(call.possible_moves_subset) = expected

\* a batch with candidates that can exchange and candidates that cannot
C17_Witness ==
    /\ Called("generate_batched")
    /\ \E k \in 1..call.n : ExchangeIllegalAfter(k)
    /\ \E k \in 1..call.n : ~ExchangeIllegalAfter(k)
    /\ call.representations.size > call.n

\* C19: encoding a candidate batch of size 0 yields a Representation with
\* size 0 and the empty flag set.
C19_EmptyBatchIsEmpty ==
    (Called("generate_batched") /\ call.n = 0) =>
        /\ call.representations.size = 0
        /\ call.representations.empty = 1

\* the rows the passes of a call cover, in the order of the passes
RECURSIVE Covered(_, _)
Covered(passes, from) ==
    IF from > Len(passes) THEN <<>>
    ELSE [k \in 1..(passes[from][2] - passes[from][1] + 1) |->
             passes[from][1] + k - 1] \o Covered(passes, from + 1)

\* C20: for n >= 1 rows and max_batch >= 1, predict_values hands run_model
\* consecutive sub-batches of at most max_batch rows that cover every row
\* once and in order, and its result equals, element for element, the
\* result of predicting the whole batch in one call.
C20_SubBatchedEqualsWhole ==
    Called("predict_values") =>
        LET rows == SubSeq(get_representations(args.board, args.deck, args.score,
                               args.other_score, 1), 1, call.n)
        IN  /\ Covered(call.passes, 1) = [k \in 1..call.n |-> k]
            /\ \A p \in 1..Len(call.passes) :
                  call.passes[p][2] - call.passes[p][1] + 1 <= call.max_batch
            /\ Len(call.values.data) = call.n
            /\ \A k \in 1..call.n :
                  call.values.data[k] = run_model(call.est, rows).data[k]

\* several passes, the last of them over a remainder of one row, with values
\* that differ from row to row
C20_Witness ==
    /\ Called("predict_values")
    /\ Len(call.passes) >= 3
    /\ call.n % call.max_batch = 1
    /\ \E j, k \in 1..call.n : call.values.data[j] # call.values.data[k]

\* C21: predict_values returns a vector with one value per input row for
\* every n >= 1 and max_batch >= 1, a batch of one row and a last sub-batch
\* of one row included, so that it can be indexed by row.
C21_OneValuePerRow ==
    Called("predict_values") =>
        /\ call.values.ndim = 1
        /\ Len(call.values.data) = call.n
        /\ ~Raises(call.values)

\* the don't-exchange rows of a batch of n candidates are its first n rows
DontRows(n) == 1..n
\* the candidates among the first n after which exchange is legal, in order
LegalCandidates(n) ==
    SelectSeq([k \in 1..n |-> k], LAMBDA k : ~ExchangeIllegalAfter(k))

\* row r of the returned batch encodes candidate k with the given flag
EncodesCandidate(r, k, should_exchange) ==
    LET row == call.representations.rows[r]
    IN  /\ call.possible_moves_subset[r] = CallMoves[k]
        /\ row.score = CallPost[k]
        /\ row.board = UpdateBoard(args.board, CallMoves[k])
        /\ row.deck = PlayTile(args.deck, <<CallMoves[k].t1, CallMoves[k].t2>>)
        /\ row.general[4] = should_exchange

\* C27: generate_batched orders its rows as the should-exchange = 0 row of
\* every candidate in candidate order, followed by the should-exchange = 1
\* rows of the exchange-legal candidates in candidate order, and the move in
\* possible_moves_subset[r] is the candidate encoded in row r.
C27_RowOrder ==
    Called("generate_batched") =>
        /\ Len(call.representations.rows) = call.n + Len(LegalCandidates(call.n))
        /\ \A k \in DontRows(call.n) : EncodesCandidate(k, k, 0)
        /\ \A j \in 1..Len(LegalCandidates(call.n)) :
              EncodesCandidate(call.n + j, LegalCandidates(call.n)[j], 1)

\* a batch where a candidate that cannot exchange lies between two that can
C27_Witness ==
    /\ Called("generate_batched")
    /\ \E a, b, c \in 1..call.n :
          /\ a < b /\ b < c
          /\ ~ExchangeIllegalAfter(a) /\ ExchangeIllegalAfter(b)
          /\ ~ExchangeIllegalAfter(c)

\* the strategy class the spec names for an identifier
ExpectedClass(id) ==
    CASE id = "random" -> "RandomStrategy"
      [] id = "max" -> "MaxStrategy"
      [] id = "increase_min" -> "IncreaseMinStrategy"
      [] id = "increase_other_min" -> "IncreaseOtherMinStrategy"
      [] id = "reduce_deficit" -> "ReduceDeficitStrategy"
      [] id = "mixed_1" -> "MixedStrategy1"
      [] id = "mixed_2" -> "MixedStrategy2"
      [] id = "mixed_3" -> "MixedStrategy3"
      [] id = "mixed_4" -> "MixedStrategy4"
      [] id = "rl" -> "RLVanilla"
      [] id = "rl_2ply" -> "RL2PlySearch"
      [] id = "rl_3ply" -> "RL3PlySearch"
      [] OTHER -> "none"

\* C25: get_strategy returns the matching strategy for each of its twelve
\* identifiers, and for every other identifier raises ValueError, with no
\* strategy constructed and the game left as it was.
C25_GetStrategy ==
    Called("get_strategy") =>
        /\ IF ExpectedClass(call.id) # "none"
           THEN /\ "class" \in DOMAIN call.returned
                /\ call.returned.class = ExpectedClass(call.id)
           ELSE call.returned = [raises |-> "ValueError"]
        /\ args \in CallGames

\* an unknown identifier has been refused
C25_Witness ==
    /\ Called("get_strategy")
    /\ call.id = "rl_4ply"
    /\ call.returned = [raises |-> "ValueError"]

\* the ring of a cell of the offset grid: 6 at the centre cell, one less for
\* each hexagonal step away from it
Ring(r, c) ==
    LET dr == IF r > 6 THEN r - 6 ELSE 6 - r
        dc == IF c > 11 THEN c - 11 ELSE 11 - c
        half == (dr + dc) \div 2
    IN  6 - (IF dr > half THEN dr ELSE half)

\* C26: the radial-distance channel delivered to the estimator holds k/6 at
\* the playable cells of ring k, for k = 1..6, and 0 elsewhere (values
\* compared in sixths).
C26_RingsKept ==
    Called("get_extra_grid_feature_channels") =>
        \A k \in 1..call.b, r \in 1..11, c \in 1..21 :
            call.channels.idx[k][r][c] =
                IF call.channels.playable[k][r][c] = 1 THEN Ring(r, c) ELSE 0

\* C24: after prepare_model_inputs(r) the arrays stored in r are as they
\* were before the call.
C24_StoredUnchanged ==
    Called("prepare_model_inputs") => call.after = call.before

\* C23: a row whose predicted value is NaN or infinite is never the row
\* choose_move returns and never one of the top-k rows searched, when some
\* row has a finite value.
C23_NonFiniteDisqualified ==
    Called("rank_values") =>
        LET finite == {k \in 1..call.n : call.move_values[k] \notin NonFinite}
        IN  finite # {} =>
                /\ call.chosen.best_move_idx \in finite
                /\ \A k \in 1..Len(call.top_k_indices) :
                       call.top_k_indices[k] \in finite

\* C28: after any sequence of calls of the setters, combine_reprs and
\* clip_to_size, the buffer's size field is the number of rows its arrays hold.
C28_SizeIsRowCount ==
    buffer # None => buffer.size = Len(buffer.rows)

====
